---- MODULE Spec2Model ----
(***************************************************************************)
(* The UDP audio recorder of Direct_record_and_save_sound.py: the          *)
(* listening thread's receive loop (listen_for_audio) with its fragment    *)
(* reassembly buffer, the clean-up sweep of pending entries, the counters  *)
(* and the WAV sink, and the main thread's shutdown (Spec).                *)
(* The continuous receiver of continuous-receiver.py: its receiving and    *)
(* playback threads around the audio queue (SpecPlayback).                 *)
(* The capture tools of Print_sound_data.py and sound_visualizer.py with   *)
(* their START / STOP control sends (SpecCapture).                         *)
(* The sizes the continuous receiver computes from its arguments           *)
(* (SpecSizes).  The server's UDPListener._process_data (SpecListening)    *)
(* and MemoryStorage (SpecStore, SpecHistory).  The MicrophoneTool of      *)
(* Sound_data.py with its listening thread (SpecMicrophone).               *)
(***************************************************************************)
EXTENDS Integers, Sequences, FiniteSets, TLC

\* ------------------------------------------------------------------------
\* Program constants
\* ------------------------------------------------------------------------
HEADER_SIZE == 8

\* the modulus of old_seq_threshold
SeqSpace == 65536

\* the wrap test of the last_sequence update
HalfSpace == 32768

\* the distance subtracted from last_sequence by the clean-up sweep
Window == 30

\* the offset of the sweep's second ("wraparound") test
WrapGuard == 30000

\* ------------------------------------------------------------------------
\* Bounds
\* ------------------------------------------------------------------------
\* datagrams received in one run
MaxPackets == 5

\* ------------------------------------------------------------------------
\* Values
\* ------------------------------------------------------------------------
\* Python's None in a slot of a pending entry (a payload byte is in 0..255)
None == <<-1>>

\* a datagram is the sequence of its bytes; this is the layout the header
\* parse of listen_for_audio reads back
MkDatagram(seq, idx, cnt, payload) ==
    << seq \div 256, seq % 256, idx, cnt, 0, 0, 0, 0 >> \o payload

PayloadA == << 65 >>
PayloadB == << 66 >>

\* fragment idx of a chunk sent as two fragments, A then B
Frag(seq, idx) == MkDatagram(seq, idx, 2, IF idx = 0 THEN PayloadA ELSE PayloadB)

\* what a device session may send: each feed is a set of datagrams
FeedEndToEnd ==
    { Frag(5, 0), Frag(5, 1), MkDatagram(5, 2, 2, PayloadB),
      << 0, 5, 0, 2, 0, 0, 0 >>, << >> }

FeedWrap ==
    { Frag(s, i) : s \in {65534, 65535, 0, 1}, i \in {0, 1} }

FeedLow ==
    { MkDatagram(40, 0, 1, PayloadA), MkDatagram(32, 0, 1, PayloadB),
      Frag(1, 0), Frag(1, 1), MkDatagram(1, 1, 0, PayloadB),
      << 0, 1, 0 >> }

Feeds == { FeedEndToEnd, FeedWrap, FeedLow }

VARIABLES
    device,         \* the datagrams the sending device may emit in this run
    rx,             \* history: the datagrams recvfrom has returned, in order
    running,        \* the global flag of the listening thread
    pc,             \* the listening thread: "recv" in its loop, "done" after it
    packet_buffer,  \* sequence number -> list of slots
    last_sequence,
    stats,          \* packets_received, packets_written, bytes_written
    sink,           \* the frames written to the WAV file, in order
    evicted,        \* history: entries deleted by the clean-up sweep
    outcome         \* the path the last loop iteration took

recorderVars == << device, rx, running, pc, packet_buffer, last_sequence, stats,
                   sink, evicted, outcome >>

\* ------------------------------------------------------------------------
\* The continuous receiver (continuous-receiver.py, receive_and_play): its
\* configuration, with the default arguments of lines 9-11
\* ------------------------------------------------------------------------
stm32_ip == "192.168.1.111"

\* some other host on the network
OtherIp == "192.168.1.50"

\* the hosts a datagram may come from
Sources == { stm32_ip, OtherIp }

buffer_size == 2048

\* max(10, int((200 / 1000) * (16009 / 2048) * 2)) = max(10, 3)
jitter_buffer_packets == 10

\* queue.Queue(maxsize=jitter_buffer_packets * 2)
maxsize == jitter_buffer_packets * 2

buffer_target == jitter_buffer_packets \div 2

\* silence is written while silence_runs is below this
ShortGap == 5

\* re-buffering starts when silence_runs is above this
LongGap == 50

\* datagrams of the configured device received in one run
MaxDatagrams == 21

\* the datagram sizes a device may use (one size per run): below the eight
\* bytes the first-packet report unpacks, even, and odd
PacketLens == { 6, 8, 9 }

VARIABLES
    packet_len,     \* the size of the datagrams the device sends in this run
    long_run,       \* whether this run lasts beyond the 5 s report interval
    packet_count,   \* datagrams counted since the last report
    accepted,       \* history: datagrams received from stm32_ip so far
    cr_running,     \* `running` of receive_and_play
    has_started,
    audio_queue,    \* the items of audio_queue, oldest first
    rpc,            \* receive_audio: where the thread is
    recv_data,      \* receive_audio: `data`, the last datagram received
    ppc,            \* play_audio: where the thread is
    silence_runs,
    audio_data,     \* play_audio: the item taken from the queue
    out,            \* history: the datagrams written to the stream, in order
    last_frame,     \* the last frame written to the stream
    silence_written \* history: silence blocks written since the last datagram

playerVars == << packet_len, long_run, packet_count, accepted, cr_running, has_started, audio_queue,
                 rpc, recv_data, ppc, silence_runs, audio_data, out,
                 last_frame, silence_written >>

\* ------------------------------------------------------------------------
\* The capture tools: capture_sound_udp of Print_sound_data.py and
\* capture_and_visualize of sound_visualizer.py
\* ------------------------------------------------------------------------
Tools == { "print", "visualizer" }

\* samples_per_piece * 4 * sample_size, with the defaults 10 and 2
PieceBytes == 80

\* the sample group the visualizer consumes at a time
GroupBytes == 8

\* datagrams received in one capture
MaxCaptured == 6

\* the datagram sizes the device may use in a capture
CaptureLens == { 6, 8, 30 }

VARIABLES
    tool,           \* which capture tool this run is
    cpc,            \* where the tool's main thread is
    sock_open,      \* udp_sock has not been closed
    sent,           \* history: the control sends attempted, in order
    captured,       \* history: datagrams recvfrom has returned
    buffer,         \* len(buffer) / len(raw_buffer), the bytes not yet consumed
    piece_count

captureVars == << tool, cpc, sock_open, sent, captured, buffer, piece_count >>

\* ------------------------------------------------------------------------
\* The configuration of the continuous receiver (continuous-receiver.py,
\* lines 9-35, 112, 121-125): the sizes computed from the arguments and the
\* filling of the queue up to the start of playback
\* ------------------------------------------------------------------------
VARIABLES
    arg_jitter_buffer_ms,       \* jitter_buffer_ms, the --jitter argument
    arg_sample_rate,            \* sample_rate, the --rate argument
    arg_buffer_size,            \* buffer_size, the --buffer argument
    cfg_pc,                     \* how far receive_and_play has come
    cfg_jitter_buffer_packets,  \* jitter_buffer_packets as computed (line 24)
    cfg_maxsize,                \* audio_queue.maxsize (line 35)
    cfg_buffer_target,          \* buffer_target (line 112)
    cfg_qsize,                  \* audio_queue.qsize()
    cfg_dropped                 \* the drop-oldest path has run (lines 92-95)

configVars == << arg_jitter_buffer_ms, arg_sample_rate, arg_buffer_size, cfg_pc,
                 cfg_jitter_buffer_packets, cfg_maxsize, cfg_buffer_target,
                 cfg_qsize, cfg_dropped >>

\* receive_and_play entered, nothing computed yet
InitConfig ==
    /\ cfg_pc = "args"
    /\ cfg_jitter_buffer_packets = 0
    /\ cfg_maxsize = 0
    /\ cfg_buffer_target = 0
    /\ cfg_qsize = 0
    /\ cfg_dropped = FALSE

\* the defaults of lines 10-11
DefaultConfig ==
    /\ arg_jitter_buffer_ms = 200
    /\ arg_sample_rate = 16009
    /\ arg_buffer_size = 2048
    /\ InitConfig

\* ------------------------------------------------------------------------
\* UDPListener (app/utils/udp_listener.py)
\* ------------------------------------------------------------------------
VARIABLES
    json_callback,       \* a JSON callback is registered (not None)
    audio_callback,      \* an audio callback is registered
    vibration_callback,  \* a vibration callback is registered
    processed            \* per datagram passed to _process_data, in order:
                         \* the datagram and the callbacks that were called

listenerVars == << json_callback, audio_callback, vibration_callback, processed >>

\* a listener constructed with all three callbacks (lines 16-31)
InitListener ==
    /\ json_callback = TRUE
    /\ audio_callback = TRUE
    /\ vibration_callback = TRUE
    /\ processed = << >>

\* ------------------------------------------------------------------------
\* MemoryStorage (app/data/storage.py)
\* ------------------------------------------------------------------------
VARIABLES
    max_samples,        \* self.max_samples
    sensor_data,        \* self.sensor_data, a deque(maxlen=max_samples)
    store_audio_data,   \* self.audio_data: device_id -> deque(maxlen=10)
    vibration_data,     \* self.vibration_data: device_id -> deque(maxlen=50)
    connected_devices,  \* self.connected_devices
    latest_data,        \* self.latest_data: device_id -> record
    sensor_calls,       \* history: calls of add_sensor_data so far
    sensor_arg,         \* history: the argument of the last add_sensor_data
                        \* call, as passed and as the caller has it afterwards
    sensor_log,         \* history: every record appended to sensor_data
    audio_added,        \* history: device_ip -> calls of add_audio_data
    vibration_added,    \* history: device_ip -> calls of add_vibration_data
    history             \* the last get_sensor_history call and its result

storeVars == << max_samples, sensor_data, store_audio_data, vibration_data,
                connected_devices, latest_data >>

storageVars == << storeVars, sensor_calls, sensor_arg, sensor_log, audio_added,
                  vibration_added, history >>

\* a dictionary key that is not there
NoKey == "(absent)"

\* no call made yet
NoCall == [ called |-> FALSE ]

\* the hosts that send to the server
DeviceIps == { "192.168.1.10", "192.168.1.11" }

\* a store just constructed (lines 18-27)
InitStorage ==
    /\ sensor_data = << >>
    /\ store_audio_data = [ d \in {} |-> << >> ]
    /\ vibration_data = [ d \in {} |-> << >> ]
    /\ connected_devices = {}
    /\ latest_data = [ d \in {} |-> << >> ]
    /\ sensor_calls = 0
    /\ sensor_arg = NoCall
    /\ sensor_log = << >>
    /\ audio_added = [ ip \in DeviceIps |-> 0 ]
    /\ vibration_added = [ ip \in DeviceIps |-> 0 ]
    /\ history = NoCall

\* MemoryStorage() with the default of line 18
DefaultStorage ==
    /\ max_samples = 1000
    /\ InitStorage

\* ------------------------------------------------------------------------
\* MicrophoneTool (Sound_data.py)
\* ------------------------------------------------------------------------
VARIABLES
    is_recording,   \* the menu's flag (lines 306-353): "no", "yes", and
                    \* while stop_recording is between lines 74 and 85
                    \* "stopping"
    mic_running,    \* self.running
    wf,             \* self.wf: "none", "open" or "closed"
    received_data,  \* len(self.received_data), in datagrams
    listen_thread,  \* where the thread running _listen is
    sock_timeout,   \* the socket's timeout: "none" (blocking) or "1s"
    recv_timeout,   \* the timeout the recvfrom call in progress started with
    wav_frames,     \* history: datagrams written to the WAV file
    late_frames,    \* history: datagrams written after stop_recording closed
                    \* the file
    data_saved,     \* history: _save_data_to_file has been called
    stop_returned   \* history: stop_recording has returned

micVars == << is_recording, mic_running, wf, received_data, listen_thread,
              sock_timeout, recv_timeout, wav_frames, late_frames, data_saved,
              stop_returned >>

\* a tool just constructed (lines 13-46), the menu showing (line 322)
InitMic ==
    /\ is_recording = "no"
    /\ mic_running = FALSE
    /\ wf = "none"
    /\ received_data = 0
    /\ listen_thread = "none"
    /\ sock_timeout = "none"
    /\ recv_timeout = "none"
    /\ wav_frames = 0
    /\ late_frames = 0
    /\ data_saved = FALSE
    /\ stop_returned = FALSE

\* the variables of the programs modelled further down
appVars == << configVars, listenerVars, storageVars, micVars >>

\* their state while another program is the one running
InitApp ==
    /\ DefaultConfig
    /\ InitListener
    /\ DefaultStorage
    /\ InitMic

vars == << recorderVars, playerVars, captureVars, appVars >>

\* the state of a capture tool once its socket is bound
InitCapture ==
    /\ cpc = "start"
    /\ sock_open = TRUE
    /\ sent = << >>
    /\ captured = 0
    /\ buffer = 0
    /\ piece_count = 0

\* no datagram, no frame
NoData == [ id |-> 0, len |-> 0, src |-> "none" ]

\* the state of receive_and_play when its two threads are started
\* (lines 34-51, 128)
InitPlayer ==
    /\ packet_count = 0
    /\ accepted = 0
    /\ cr_running = TRUE
    /\ has_started = FALSE
    /\ audio_queue = << >>
    /\ rpc = "loop"
    /\ recv_data = NoData
    /\ ppc = "wait_start"
    /\ silence_runs = 0
    /\ audio_data = NoData
    /\ out = << >>
    /\ last_frame = NoData
    /\ silence_written = 0

\* ------------------------------------------------------------------------
\* Header parse (lines 58-65)
\* ------------------------------------------------------------------------
sequence(data) == data[1] * 256 + data[2]

chunk_index(data) == data[3]

chunk_count(data) == data[4]

timestamp(data) ==
    data[5] * 16777216 + data[6] * 65536 + data[7] * 256 + data[8]

\* the slice taken one byte early: data[HEADER_SIZE - 1:]
audio_chunkFromHeader(data) == SubSeq(data, HEADER_SIZE, Len(data))

audio_chunk(data) == SubSeq(data, HEADER_SIZE + 1, Len(data))

\* ------------------------------------------------------------------------
\* Reassembly helpers
\* ------------------------------------------------------------------------
\* [None] * chunk_count
EmptySlots(cnt) == [ i \in 1..cnt |-> None ]

\* all(chunk is not None for chunk in entry)
AllFilled(entry) == \A i \in 1..Len(entry) : entry[i] # None

RECURSIVE Join(_)
\* b''.join(entry)
Join(entry) ==
    IF entry = << >> THEN << >> ELSE Head(entry) \o Join(Tail(entry))

\* del packet_buffer[seq]
Remove(pb, seq) == [ s \in DOMAIN pb \ {seq} |-> pb[s] ]

\* the condition under which a reassembled chunk moves last_sequence
Advances(seq, last) == seq > last \/ last - seq > HalfSpace

\* ------------------------------------------------------------------------
\* Clean-up sweep (lines 102-107)
\* ------------------------------------------------------------------------
old_seq_threshold(last) == (last - Window) % SeqSpace

Stale(seq, last) ==
    LET thr == old_seq_threshold(last)
    IN  (seq < thr /\ thr > Window) \/ (seq > thr + WrapGuard)

Sweep(pb, last) == [ s \in { t \in DOMAIN pb : ~Stale(t, last) } |-> pb[s] ]

Swept(pb, last) == { [seq |-> s, last |-> last] : s \in { t \in DOMAIN pb : Stale(t, last) } }

\* ------------------------------------------------------------------------
\* Counters (lines 37-43, 52, 70-71, 86-87)
\* ------------------------------------------------------------------------
\* the increment of line 52 placed after the length check: a short datagram
\* is not counted
CountReceivedAfterCheck(st) == st

CountReceived(st) == [ st EXCEPT !.packets_received = @ + 1 ]

\* the byte counter fed with the datagram's length instead of the payload's
CountWrittenWithHeader(st, bytes) ==
    [ st EXCEPT !.packets_written = @ + 1,
                !.bytes_written = @ + Len(bytes) + HEADER_SIZE ]

CountWritten(st, bytes) ==
    [ st EXCEPT !.packets_written = @ + 1, !.bytes_written = @ + Len(bytes) ]

\* ------------------------------------------------------------------------
\* Initial state (lines 20-43)
\* ------------------------------------------------------------------------
Init ==
    /\ device \in Feeds
    /\ rx = << >>
    /\ running = TRUE
    /\ pc = "recv"
    /\ packet_buffer = [ s \in {} |-> << >> ]
    /\ last_sequence = -1
    /\ stats = [ packets_received |-> 0, packets_written |-> 0, bytes_written |-> 0 ]
    /\ sink = << >>
    /\ evicted = {}
    /\ outcome = "none"
    /\ packet_len = 8
    /\ long_run = FALSE
    /\ InitPlayer
    /\ tool = "print"
    /\ InitCapture
    /\ InitApp

\* recvfrom returns data inside `while running`
Receives(data) ==
    /\ pc = "recv"
    /\ running
    /\ Len(rx) < MaxPackets
    /\ data \in device
    /\ rx' = Append(rx, data)
    /\ UNCHANGED << playerVars, captureVars, appVars >>

\* ------------------------------------------------------------------------
\* One iteration of the receive loop, by the path it takes
\* ------------------------------------------------------------------------
\* lines 51-56: too small, `continue` (the sweep is not reached)
RecvShort(data) ==
    /\ Receives(data)
    /\ Len(data) < HEADER_SIZE
    /\ stats' = CountReceived(stats)
    /\ outcome' = "short"
    /\ UNCHANGED << device, running, pc, packet_buffer, last_sequence, sink, evicted >>

\* lines 68-72, then the sweep of lines 102-107
RecvSingle(data) ==
    /\ Receives(data)
    /\ Len(data) >= HEADER_SIZE
    /\ chunk_count(data) = 1
    /\ LET seq == sequence(data)
           chunk == audio_chunk(data)
       IN  /\ sink' = Append(sink, [seq |-> seq, data |-> chunk, parts |-> 1])
           /\ stats' = CountWritten(CountReceived(stats), chunk)
           /\ last_sequence' = seq
           /\ packet_buffer' = Sweep(packet_buffer, seq)
           /\ evicted' = evicted \cup Swept(packet_buffer, seq)
    /\ outcome' = "single"
    /\ UNCHANGED << device, running, pc >>

\* lines 75-79 raising IndexError: the entry (created if new) stays, the
\* handler of lines 109-113 prints and the loop continues without a sweep
RecvFragmentError(data) ==
    /\ Receives(data)
    /\ Len(data) >= HEADER_SIZE
    /\ chunk_count(data) # 1
    /\ LET seq == sequence(data)
           pb1 == IF seq \in DOMAIN packet_buffer
                  THEN packet_buffer
                  ELSE [ s \in DOMAIN packet_buffer \cup {seq} |->
                           IF s = seq THEN EmptySlots(chunk_count(data))
                                      ELSE packet_buffer[s] ]
       IN  /\ chunk_index(data) >= Len(pb1[seq])
           /\ packet_buffer' = pb1
    /\ stats' = CountReceived(stats)
    /\ outcome' = "error"
    /\ UNCHANGED << device, running, pc, last_sequence, sink, evicted >>

\* lines 75-91, then the sweep of lines 102-107
RecvFragment(data) ==
    /\ Receives(data)
    /\ Len(data) >= HEADER_SIZE
    /\ chunk_count(data) # 1
    /\ LET seq == sequence(data)
           pb1 == IF seq \in DOMAIN packet_buffer
                  THEN packet_buffer
                  ELSE [ s \in DOMAIN packet_buffer \cup {seq} |->
                           IF s = seq THEN EmptySlots(chunk_count(data))
                                      ELSE packet_buffer[s] ]
           pb2 == [ pb1 EXCEPT ![seq][chunk_index(data) + 1] = audio_chunk(data) ]
       IN  /\ chunk_index(data) < Len(pb1[seq])
           /\ IF AllFilled(pb2[seq])
              THEN LET complete_audio == Join(pb2[seq])
                       last == IF Advances(seq, last_sequence)
                               THEN seq ELSE last_sequence
                   IN  /\ sink' = Append(sink, [seq |-> seq, data |-> complete_audio,
                                                parts |-> Len(pb2[seq])])
                       /\ stats' = CountWritten(CountReceived(stats), complete_audio)
                       /\ last_sequence' = last
                       /\ packet_buffer' = Sweep(Remove(pb2, seq), last)
                       /\ evicted' = evicted \cup Swept(Remove(pb2, seq), last)
                       /\ outcome' = "complete"
              ELSE /\ stats' = CountReceived(stats)
                   /\ packet_buffer' = Sweep(pb2, last_sequence)
                   /\ evicted' = evicted \cup Swept(pb2, last_sequence)
                   /\ outcome' = "stored"
                   /\ UNCHANGED << last_sequence, sink >>
    /\ UNCHANGED << device, running, pc >>

listen_for_audio ==
    \E data \in device :
        \/ RecvShort(data)
        \/ RecvSingle(data)
        \/ RecvFragmentError(data)
        \/ RecvFragment(data)

\* lines 130-133: the main thread's finally block
Shutdown ==
    /\ running
    /\ running' = FALSE
    /\ UNCHANGED << device, rx, pc, packet_buffer, last_sequence, stats, sink,
                    evicted, outcome >>
    /\ UNCHANGED << playerVars, captureVars, appVars >>

\* lines 49 and 109-113: the loop ends once running is false
ExitLoop ==
    /\ pc = "recv"
    /\ ~running
    /\ pc' = "done"
    /\ UNCHANGED << device, rx, running, packet_buffer, last_sequence, stats,
                    sink, evicted, outcome >>
    /\ UNCHANGED << playerVars, captureVars, appVars >>

Next == listen_for_audio \/ Shutdown \/ ExitLoop

Spec == Init /\ [][Next]_vars

\* ------------------------------------------------------------------------
\* Properties
\* ------------------------------------------------------------------------
\* the signed 16-bit distance from last to seq
Delta(seq, last) ==
    LET d == (seq - last) % SeqSpace
    IN  IF d >= HalfSpace THEN d - SeqSpace ELSE d

\* the payloads written to the sink, in order
Written == [ k \in 1..Len(sink) |-> sink[k].data ]

\* the sequence numbers of the chunks written to the sink, in order
WrittenSeqs == [ k \in 1..Len(sink) |-> sink[k].seq ]

\* the last loop iteration received `data` (in the step under consideration)
Received(data) == Len(rx') = Len(rx) + 1 /\ rx'[Len(rx')] = data

\* C1: from the initial state, fragment (seq=5, idx=1, cnt=2, B) and then
\* fragment (seq=5, idx=0, cnt=2, A) make the loop write exactly one chunk
\* A+B, after the second fragment and not before, with no entry evicted by
\* the sweep and packets_written = 1.
C1_EndToEndReverseOrder ==
    /\ rx = << Frag(5, 1) >> => (sink = << >> /\ evicted = {})
    /\ rx = << Frag(5, 1), Frag(5, 0) >> =>
          /\ Written = << PayloadA \o PayloadB >>
          /\ evicted = {}
          /\ stats.packets_written = 1

\* positions in rx of the datagrams that carry sequence number s
FragmentsOf(s) ==
    { i \in 1..Len(rx) : Len(rx[i]) >= HEADER_SIZE /\ sequence(rx[i]) = s }

\* everything received so far is a fragment of one chunk s of N >= 2
\* fragments: same count, index below the count, one payload per index
OnlyFragmentsOf(s) ==
    /\ FragmentsOf(s) = 1..Len(rx)
    /\ rx # << >>
    /\ \A i, j \in FragmentsOf(s) :
          /\ chunk_count(rx[i]) >= 2
          /\ chunk_count(rx[i]) = chunk_count(rx[j])
          /\ chunk_index(rx[i]) < chunk_count(rx[i])
          /\ chunk_index(rx[i]) = chunk_index(rx[j])
                => audio_chunk(rx[i]) = audio_chunk(rx[j])

\* the payloads of chunk s in chunk_index order, concatenated
Reassembled(s) ==
    LET n == chunk_count(rx[1])
    IN  Join([ k \in 1..n |->
                 audio_chunk(rx[CHOOSE i \in FragmentsOf(s) : chunk_index(rx[i]) = k - 1]) ])

\* C2: when the N >= 2 fragments of one chunk are delivered in any order and
\* with any duplicates, at most one chunk is ever written for that sequence
\* number, and as soon as all N distinct indices have been received exactly
\* one has been written and it is the concatenation of the N payloads in
\* chunk_index order.
C2_ReassembledExactlyOnce ==
    \A s \in { sequence(d) : d \in { e \in device : Len(e) >= HEADER_SIZE } } :
        OnlyFragmentsOf(s) =>
            /\ Len(sink) <= 1
            /\ { chunk_index(rx[i]) : i \in FragmentsOf(s) } = 0..(chunk_count(rx[1]) - 1)
                  => Written = << Reassembled(s) >>

\* the chunks 65534, 65535, 0, 1, each as two fragments, in that order
WrapScript ==
    << Frag(65534, 0), Frag(65534, 1), Frag(65535, 0), Frag(65535, 1),
       Frag(0, 0), Frag(0, 1), Frag(1, 0), Frag(1, 1) >>

IsPrefix(a, b) == Len(a) <= Len(b) /\ a = SubSeq(b, 1, Len(a))

\* C3: while chunks 65534, 65535, 0, 1 are delivered in that order, the sweep
\* deletes no pending entry of these four sequences; when all have been
\* delivered all four have been written and last_sequence is 1.
C3_WrapIsForwardProgress ==
    IsPrefix(rx, WrapScript) =>
        /\ \A e \in evicted : e.seq \notin {65534, 65535, 0, 1}
        /\ rx = WrapScript =>
              (WrittenSeqs = << 65534, 65535, 0, 1 >> /\ last_sequence = 1)

\* C4: for seq and last_sequence in 0..65535 the sweep deletes the entry of
\* seq exactly when the signed 16-bit distance from last_sequence to seq is
\* below -30: every deleted entry had such a distance, and every entry left
\* by a sweep has a distance of -30 or more.
C4_SweepIsSignedWindow ==
    /\ \A e \in evicted :
          e.last \in 0..(SeqSpace - 1) => Delta(e.seq, e.last) < -Window
    /\ (outcome \in {"single", "stored", "complete"} /\ last_sequence >= 0) =>
          \A s \in DOMAIN packet_buffer : ~(Delta(s, last_sequence) < -Window)

\* an entry that holds some of its fragments and not all
Partial(entry) ==
    /\ \E i \in 1..Len(entry) : entry[i] # None
    /\ \E i \in 1..Len(entry) : entry[i] = None

\* C5: when the iteration that completes a chunk with sequence T ends, the
\* buffer holds no partial entry for the sequence S with T = (S + 30 + 1)
\* mod 65536.
C5_PartialEvictedAfterWindow ==
    outcome \in {"single", "complete"} =>
        LET S == (sink[Len(sink)].seq - Window - 1) % SeqSpace
        IN  ~(S \in DOMAIN packet_buffer /\ Partial(packet_buffer[S]))

\* C6: last_sequence only changes to a value that is ahead of it in signed
\* 16-bit distance.
C6_LastSequenceOnlyForward ==
    [][ (last_sequence \in 0..(SeqSpace - 1) /\ last_sequence' # last_sequence)
            => Delta(last_sequence', last_sequence) > 0 ]_vars

\* C7: a sequence number whose chunk has been reassembled and written has no
\* pending entry in packet_buffer again.
C7_NoResurrection ==
    \A k \in 1..Len(sink) :
        sink[k].parts # 1 => sink[k].seq \notin DOMAIN packet_buffer

\* C8: at the end of every iteration packet_buffer holds no entry whose
\* slots are all filled.
C8_NoCompleteEntryPending ==
    \A s \in DOMAIN packet_buffer : ~AllFilled(packet_buffer[s])

\* C9: a datagram shorter than the header adds one to packets_received and
\* changes nothing else: the sink, packets_written, bytes_written,
\* last_sequence and packet_buffer are as before and the thread is still in
\* its loop.
C9_ShortDatagramOnlyCounted ==
    [][ (\E data \in device : Received(data) /\ Len(data) < HEADER_SIZE) =>
            /\ stats'.packets_received = stats.packets_received + 1
            /\ stats'.packets_written = stats.packets_written
            /\ stats'.bytes_written = stats.bytes_written
            /\ UNCHANGED << sink, last_sequence, packet_buffer, evicted >>
            /\ pc' = "recv" /\ running' ]_vars

\* a short datagram has just been handled while a fragment was pending and a
\* chunk had been written
C9_Witness ==
    /\ outcome = "short"
    /\ Len(rx[Len(rx)]) < HEADER_SIZE
    /\ stats.packets_received = Len(rx)
    /\ DOMAIN packet_buffer # {}
    /\ sink # << >>

\* C10: a fragment whose chunk_index is not in [0, chunk_count) is dropped:
\* nothing is written, the filled slots of the pending entry of its sequence
\* keep their contents, that entry is not deleted and the loop continues.
C10_BadIndexDropped ==
    [][ \A data \in device :
          ( /\ Received(data)
            /\ Len(data) >= HEADER_SIZE
            /\ chunk_count(data) # 1
            /\ chunk_index(data) >= chunk_count(data) ) =>
              /\ sink' = sink
              /\ sequence(data) \in DOMAIN packet_buffer =>
                    /\ sequence(data) \in DOMAIN packet_buffer'
                    /\ \A i \in 1..Len(packet_buffer[sequence(data)]) :
                          packet_buffer[sequence(data)][i] # None =>
                              packet_buffer'[sequence(data)][i]
                                  = packet_buffer[sequence(data)][i]
              /\ pc' = "recv" ]_vars

\* ========================================================================
\* The continuous receiver: receive_audio, play_audio and the main thread
\* of receive_and_play (continuous-receiver.py)
\* ========================================================================
\* the block written for a short gap: b'\x00' * buffer_size * 2
Silence == [ id |-> 0, len |-> buffer_size * 2, src |-> "local" ]

\* struct.unpack(f"<{len(data)//2}h", data) of the first-packet report raises
\* struct.error when the datagram is not exactly 2 * (len // 2) bytes long
UnpackFails(d) == d.len >= 8 /\ d.len % 2 = 1

\* a put that inserts at the head
PutItemAtHead(q, d) == << d >> \o q

\* Queue._put: append at the tail
PutItem(q, d) == Append(q, d)

\* a get that removes the newest item
RestAfterGetNewest(q) == SubSeq(q, 1, Len(q) - 1)

\* Queue._get: remove at the head
RestAfterGet(q) == Tail(q)

\* a fullness test that is off by one
QueueFullAbove(q) == Len(q) > maxsize

\* Queue.full(), as put tests it
QueueFull(q) == Len(q) >= maxsize

\* a wait that any occupancy ends
BufferingNever(q) == Len(q) < 0

\* the wait loops of lines 123 and 158 go on while this holds
Buffering(q) == Len(q) < buffer_target

\* a wait that does not look at the flag
KeepsWaitingDeaf(q, run) == Buffering(q)

\* lines 123 and 158: `while audio_queue.qsize() < buffer_target and running`
KeepsWaiting(q, run) == Buffering(q) /\ run

\* silence for every gap, whatever its length
WritesSilenceAlways(runs) == TRUE

\* line 146: a short gap is filled with silence
WritesSilence(runs) == runs < ShortGap

\* a filter that lets every source through
FromDeviceOrNot(a) == TRUE

\* line 66: the source filter, addr[0] != stm32_ip negated
FromDevice(a) == a = stm32_ip

\* a counter that goes up by two
UnderrunTwice(runs) == runs + 2

\* line 145: silence_runs += 1
Underrun(runs) == runs + 1

\* lines 83-87: whether the 5 s report is due at this datagram
ReportDue == IF long_run THEN { TRUE, FALSE } ELSE { FALSE }

\* the re-buffer test one timeout late
StarvedLate(runs) == runs > LongGap + 1

\* line 155: without audio for too long
Starved(runs) == runs > LongGap

\* ------------------------------------------------------------------------
\* receive_audio (lines 53-105)
\* ------------------------------------------------------------------------
\* line 60: `while running`
R_Loop ==
    /\ rpc = "loop"
    /\ rpc' = IF cr_running THEN "recv" ELSE "done"
    /\ UNCHANGED << packet_len, long_run, packet_count, accepted, cr_running, has_started, audio_queue,
                    recv_data, ppc, silence_runs, audio_data, out,
                    last_frame, silence_written >>
    /\ UNCHANGED << recorderVars, captureVars, appVars >>

\* lines 63 and 97-99: recvfrom times out after 0.1 s
R_Timeout ==
    /\ rpc = "recv"
    /\ rpc' = "loop"
    /\ UNCHANGED << packet_len, long_run, packet_count, accepted, cr_running, has_started, audio_queue,
                    recv_data, ppc, silence_runs, audio_data, out,
                    last_frame, silence_written >>
    /\ UNCHANGED << recorderVars, captureVars, appVars >>

\* lines 63-67: a datagram whose source is not stm32_ip, `continue`
R_Foreign ==
    /\ rpc = "recv"
    /\ \E a \in Sources :
          /\ ~FromDevice(a)
          /\ recv_data' = [ id |-> 0, len |-> packet_len, src |-> a ]
    /\ rpc' = "loop"
    /\ UNCHANGED << packet_len, long_run, packet_count, accepted, cr_running,
                    has_started, audio_queue, ppc, silence_runs, audio_data,
                    out, last_frame, silence_written >>
    /\ UNCHANGED << recorderVars, captureVars, appVars >>

\* lines 63-87: a datagram that passes the filter; the first one is reported,
\* and the report's unpack may raise, which ends the thread at line 101
\* before the datagram is counted
R_Accept ==
    /\ rpc = "recv"
    /\ accepted < MaxDatagrams
    /\ \E a \in Sources, report \in ReportDue :
          LET d == [ id |-> accepted + 1, len |-> packet_len, src |-> a ]
          IN  /\ FromDevice(a)
              /\ recv_data' = d
              /\ accepted' = accepted + 1
              /\ has_started' = TRUE
              /\ IF ~has_started /\ UnpackFails(d)
                 THEN rpc' = "dead" /\ UNCHANGED packet_count
                 ELSE /\ rpc' = "put"
                      /\ packet_count' = IF report THEN 0 ELSE packet_count + 1
    /\ UNCHANGED << packet_len, long_run, cr_running, audio_queue, ppc,
                    silence_runs, audio_data, out, last_frame, silence_written >>
    /\ UNCHANGED << recorderVars, captureVars, appVars >>

\* lines 63 and 101-105: recvfrom fails with an error that is not a timeout;
\* the handler outside the loop prints it and the thread ends
R_RecvError ==
    /\ rpc = "recv"
    /\ rpc' = "failed"
    /\ UNCHANGED << packet_len, long_run, packet_count, accepted, cr_running,
                    has_started, audio_queue, recv_data, ppc, silence_runs,
                    audio_data, out, last_frame, silence_written >>
    /\ UNCHANGED << recorderVars, captureVars, appVars >>

\* line 91: put(data, block=True, timeout=0.5) finds or gets room
R_Put ==
    /\ rpc = "put"
    /\ ~QueueFull(audio_queue)
    /\ audio_queue' = PutItem(audio_queue, recv_data)
    /\ rpc' = "loop"
    /\ UNCHANGED << packet_len, long_run, packet_count, accepted, cr_running, has_started,
                    recv_data, ppc, silence_runs, audio_data, out, last_frame,
                    silence_written >>
    /\ UNCHANGED << recorderVars, captureVars, appVars >>

\* lines 91-92: the queue is still full when the 0.5 s are over: queue.Full
R_PutFull ==
    /\ rpc = "put"
    /\ QueueFull(audio_queue)
    /\ rpc' = "get_nowait"
    /\ UNCHANGED << packet_len, long_run, packet_count, accepted, cr_running, has_started, audio_queue,
                    recv_data, ppc, silence_runs, audio_data, out,
                    last_frame, silence_written >>
    /\ UNCHANGED << recorderVars, captureVars, appVars >>

\* line 94: get_nowait() drops the oldest item; on an empty queue it raises
\* queue.Empty, which only the handler of line 101 catches
R_GetNowait ==
    /\ rpc = "get_nowait"
    /\ IF audio_queue = << >>
       THEN rpc' = "dead" /\ UNCHANGED audio_queue
       ELSE rpc' = "put_nowait" /\ audio_queue' = RestAfterGet(audio_queue)
    /\ UNCHANGED << packet_len, long_run, packet_count, accepted, cr_running, has_started,
                    recv_data, ppc, silence_runs, audio_data, out, last_frame,
                    silence_written >>
    /\ UNCHANGED << recorderVars, captureVars, appVars >>

\* line 95: put_nowait(data); on a full queue it raises queue.Full
R_PutNowait ==
    /\ rpc = "put_nowait"
    /\ IF QueueFull(audio_queue)
       THEN rpc' = "dead" /\ UNCHANGED audio_queue
       ELSE rpc' = "loop" /\ audio_queue' = PutItem(audio_queue, recv_data)
    /\ UNCHANGED << packet_len, long_run, packet_count, accepted, cr_running, has_started,
                    recv_data, ppc, silence_runs, audio_data, out, last_frame,
                    silence_written >>
    /\ UNCHANGED << recorderVars, captureVars, appVars >>

receive_audio ==
    \/ R_Loop \/ R_Timeout \/ R_Foreign \/ R_Accept \/ R_RecvError
    \/ R_Put \/ R_PutFull \/ R_GetNowait \/ R_PutNowait

\* ------------------------------------------------------------------------
\* play_audio (lines 107-170)
\* ------------------------------------------------------------------------
\* lines 118-122: the wait for the first datagram ends; without running the
\* buffer wait is skipped
P_WaitStart ==
    /\ ppc = "wait_start"
    /\ ~cr_running \/ has_started
    /\ ppc' = IF cr_running THEN "prebuffer" ELSE "loop"
    /\ UNCHANGED << packet_len, long_run, packet_count, accepted, cr_running, has_started, audio_queue,
                    rpc, recv_data, silence_runs, audio_data, out,
                    last_frame, silence_written >>
    /\ UNCHANGED << recorderVars, captureVars, appVars >>

\* lines 123-128: the buffer wait ends
P_Prebuffered ==
    /\ ppc = "prebuffer"
    /\ ~KeepsWaiting(audio_queue, cr_running)
    /\ silence_runs' = 0
    /\ ppc' = "loop"
    /\ UNCHANGED << packet_len, long_run, packet_count, accepted, cr_running, has_started, audio_queue,
                    rpc, recv_data, audio_data, out, last_frame,
                    silence_written >>
    /\ UNCHANGED << recorderVars, captureVars, appVars >>

\* line 131: `while running`
P_Loop ==
    /\ ppc = "loop"
    /\ ppc' = IF cr_running THEN "get" ELSE "done"
    /\ UNCHANGED << packet_len, long_run, packet_count, accepted, cr_running, has_started, audio_queue,
                    rpc, recv_data, silence_runs, audio_data, out,
                    last_frame, silence_written >>
    /\ UNCHANGED << recorderVars, captureVars, appVars >>

\* lines 134-135: get(timeout=0.02) returns the oldest item
P_Get ==
    /\ ppc = "get"
    /\ audio_queue # << >>
    /\ audio_data' = Head(audio_queue)
    /\ audio_queue' = RestAfterGet(audio_queue)
    /\ silence_runs' = 0
    /\ ppc' = "write"
    /\ UNCHANGED << packet_len, long_run, packet_count, accepted, cr_running, has_started, rpc,
                    recv_data, out, last_frame, silence_written >>
    /\ UNCHANGED << recorderVars, captureVars, appVars >>

\* lines 138-141: stream.write(audio_data)
P_Write ==
    /\ ppc = "write"
    /\ out' = Append(out, audio_data)
    /\ last_frame' = audio_data
    /\ silence_written' = 0
    /\ ppc' = "loop"
    /\ UNCHANGED << packet_len, long_run, packet_count, accepted, cr_running, has_started, audio_queue,
                    rpc, recv_data, silence_runs, audio_data >>
    /\ UNCHANGED << recorderVars, captureVars, appVars >>

\* lines 143-156: get times out on the empty queue: queue.Empty
P_Empty ==
    /\ ppc = "get"
    /\ audio_queue = << >>
    /\ silence_runs' = Underrun(silence_runs)
    /\ IF WritesSilence(Underrun(silence_runs))
       THEN /\ last_frame' = Silence
            /\ silence_written' = silence_written + 1
            /\ ppc' = "loop"
       ELSE /\ ppc' = IF Starved(Underrun(silence_runs)) THEN "rebuffer" ELSE "loop"
            /\ UNCHANGED << last_frame, silence_written >>
    /\ UNCHANGED << packet_len, long_run, packet_count, accepted, cr_running, has_started, audio_queue,
                    rpc, recv_data, audio_data, out >>
    /\ UNCHANGED << recorderVars, captureVars, appVars >>

\* lines 138, 149 and 166-170: stream.write raises; the handler outside the
\* loop prints the error and the thread ends
P_WriteError ==
    /\ \/ ppc = "write" /\ UNCHANGED silence_runs
       \/ /\ ppc = "get"
          /\ audio_queue = << >>
          /\ WritesSilence(Underrun(silence_runs))
          /\ silence_runs' = Underrun(silence_runs)
    /\ ppc' = "failed"
    /\ UNCHANGED << packet_len, long_run, packet_count, accepted, cr_running,
                    has_started, audio_queue, rpc, recv_data, audio_data, out,
                    last_frame, silence_written >>
    /\ UNCHANGED << recorderVars, captureVars, appVars >>

\* lines 158-161: the re-buffer wait ends
P_Rebuffered ==
    /\ ppc = "rebuffer"
    /\ ~KeepsWaiting(audio_queue, cr_running)
    /\ ppc' = "resume"
    /\ UNCHANGED << packet_len, long_run, packet_count, accepted, cr_running, has_started, audio_queue,
                    rpc, recv_data, silence_runs, audio_data, out,
                    last_frame, silence_written >>
    /\ UNCHANGED << recorderVars, captureVars, appVars >>

\* lines 162-164: `if running: silence_runs = 0`
P_Resume ==
    /\ ppc = "resume"
    /\ silence_runs' = IF cr_running THEN 0 ELSE silence_runs
    /\ ppc' = "loop"
    /\ UNCHANGED << packet_len, long_run, packet_count, accepted, cr_running, has_started, audio_queue,
                    rpc, recv_data, audio_data, out, last_frame,
                    silence_written >>
    /\ UNCHANGED << recorderVars, captureVars, appVars >>

play_audio ==
    \/ P_WaitStart \/ P_Prebuffered \/ P_Loop \/ P_Get \/ P_Write
    \/ P_Empty \/ P_WriteError \/ P_Rebuffered \/ P_Resume

\* line 190: the main thread's finally block clears the flag
StopPlayback ==
    /\ cr_running
    /\ cr_running' = FALSE
    /\ UNCHANGED << packet_len, long_run, packet_count, accepted, has_started, audio_queue, rpc,
                    recv_data, ppc, silence_runs, audio_data, out, last_frame,
                    silence_written >>
    /\ UNCHANGED << recorderVars, captureVars, appVars >>

\* the recorder is not part of this program: its variables stay as they are
InitPlayback ==
    /\ packet_len \in PacketLens
    /\ long_run = FALSE
    /\ InitPlayer
    /\ device = {}
    /\ rx = << >>
    /\ running = TRUE
    /\ pc = "recv"
    /\ packet_buffer = [ s \in {} |-> << >> ]
    /\ last_sequence = -1
    /\ stats = [ packets_received |-> 0, packets_written |-> 0, bytes_written |-> 0 ]
    /\ sink = << >>
    /\ evicted = {}
    /\ outcome = "none"
    /\ tool = "print"
    /\ InitCapture
    /\ InitApp

NextPlayback == receive_audio \/ play_audio \/ StopPlayback

SpecPlayback == InitPlayback /\ [][NextPlayback]_vars

\* both threads are scheduled again and again, and each of their waits is
\* bounded: recvfrom by the socket timeout of 0.1 s (line 32), put by 0.5 s,
\* get by 0.02 s, the polling loops by their sleeps
\* (for termination the size matters only through the first-packet report:
\* one size that passes it and one that makes it raise)
InitPlaybackFair == InitPlayback /\ packet_len >= 8

SpecPlaybackFair ==
    InitPlaybackFair /\ [][NextPlayback]_vars
        /\ WF_vars(receive_audio) /\ WF_vars(play_audio)

\* ------------------------------------------------------------------------
\* The receiving thread of the continuous receiver on its own, in a run that
\* lasts beyond the report interval, while the playback thread has not been
\* scheduled
\* ------------------------------------------------------------------------
InitReceiver ==
    /\ packet_len \in PacketLens
    /\ long_run = TRUE
    /\ InitPlayer
    /\ device = {}
    /\ rx = << >>
    /\ running = TRUE
    /\ pc = "recv"
    /\ packet_buffer = [ s \in {} |-> << >> ]
    /\ last_sequence = -1
    /\ stats = [ packets_received |-> 0, packets_written |-> 0, bytes_written |-> 0 ]
    /\ sink = << >>
    /\ evicted = {}
    /\ outcome = "none"
    /\ tool = "print"
    /\ InitCapture
    /\ InitApp

NextReceiver == receive_audio \/ StopPlayback

SpecReceiver == InitReceiver /\ [][NextReceiver]_vars

\* ------------------------------------------------------------------------
\* capture_sound_udp (Print_sound_data.py, lines 6-64)
\* ------------------------------------------------------------------------
\* the other programs' variables
notCaptureVars == << recorderVars, playerVars, appVars >>

\* one attempted control send and whether sendto returned
Sent(msg, ok) == [ msg |-> msg, ok |-> ok ]

\* lines 36-47: the pieces cut from n buffered bytes, and what is left
Pieces(n) == n \div PieceBytes

RestAfterPieces(n) == n % PieceBytes

\* lines 48-52 of sound_visualizer.py: what is left after whole groups
RestAfterGroups(n) == n % GroupBytes

\* lines 20-21: START is sent inside the try; a failing sendto is caught at
\* line 55 and the finally block runs
C_Start ==
    /\ tool = "print"
    /\ cpc = "start"
    /\ \E ok \in BOOLEAN :
          /\ sent' = Append(sent, Sent("START", ok))
          /\ cpc' = IF ok THEN "recv" ELSE "finally"
    /\ UNCHANGED << tool, sock_open, captured, buffer, piece_count >>
    /\ UNCHANGED notCaptureVars

\* lines 29 and 49-51: recvfrom times out after 1 s
C_Timeout ==
    /\ tool = "print"
    /\ cpc = "recv"
    /\ UNCHANGED captureVars
    /\ UNCHANGED notCaptureVars

\* lines 29-47: a datagram is added to the buffer and whole pieces are printed
C_Receive ==
    /\ tool = "print"
    /\ cpc = "recv"
    /\ captured < MaxCaptured
    /\ \E n \in CaptureLens :
          /\ buffer' = RestAfterPieces(buffer + n)
          /\ piece_count' = piece_count + Pieces(buffer + n)
    /\ captured' = captured + 1
    /\ UNCHANGED << tool, cpc, sock_open, sent >>
    /\ UNCHANGED notCaptureVars

\* lines 53-56: Ctrl+C or an error of recvfrom ends the loop
C_Interrupt ==
    /\ tool = "print"
    /\ cpc = "recv"
    /\ cpc' = "finally"
    /\ UNCHANGED << tool, sock_open, sent, captured, buffer, piece_count >>
    /\ UNCHANGED notCaptureVars

\* lines 59-62: STOP is sent; a failing sendto is swallowed
C_Stop ==
    /\ tool = "print"
    /\ cpc = "finally"
    /\ \E ok \in BOOLEAN : sent' = Append(sent, Sent("STOP", ok))
    /\ cpc' = "close"
    /\ UNCHANGED << tool, sock_open, captured, buffer, piece_count >>
    /\ UNCHANGED notCaptureVars

\* line 63: udp_sock.close()
C_Close ==
    /\ tool = "print"
    /\ cpc = "close"
    /\ sock_open' = FALSE
    /\ cpc' = "done"
    /\ UNCHANGED << tool, sent, captured, buffer, piece_count >>
    /\ UNCHANGED notCaptureVars

capture_sound_udp ==
    \/ C_Start \/ C_Timeout \/ C_Receive \/ C_Interrupt \/ C_Stop \/ C_Close

\* ------------------------------------------------------------------------
\* capture_and_visualize (sound_visualizer.py, lines 7-78)
\* ------------------------------------------------------------------------
\* line 37: START is sent before the try; a failing sendto leaves the
\* function with the exception
V_Start ==
    /\ tool = "visualizer"
    /\ cpc = "start"
    /\ \E ok \in BOOLEAN :
          /\ sent' = Append(sent, Sent("START", ok))
          /\ cpc' = IF ok THEN "show" ELSE "raised"
    /\ UNCHANGED << tool, sock_open, captured, buffer, piece_count >>
    /\ UNCHANGED notCaptureVars

\* lines 44 and 58-60: update() finds no datagram
V_Timeout ==
    /\ tool = "visualizer"
    /\ cpc = "show"
    /\ UNCHANGED captureVars
    /\ UNCHANGED notCaptureVars

\* lines 44-56: update() receives a datagram and consumes whole groups
V_Receive ==
    /\ tool = "visualizer"
    /\ cpc = "show"
    /\ captured < MaxCaptured
    /\ \E n \in CaptureLens : buffer' = RestAfterGroups(buffer + n)
    /\ captured' = captured + 1
    /\ UNCHANGED << tool, cpc, sock_open, sent, piece_count >>
    /\ UNCHANGED notCaptureVars

\* lines 69-74: plt.show() returns (window closed), is interrupted, or lets
\* an error of update() through
V_ShowEnds ==
    /\ tool = "visualizer"
    /\ cpc = "show"
    /\ cpc' = "finally"
    /\ UNCHANGED << tool, sock_open, sent, captured, buffer, piece_count >>
    /\ UNCHANGED notCaptureVars

\* line 76: STOP is sent in the finally block, outside any try; a failing
\* sendto leaves the function before close()
V_Stop ==
    /\ tool = "visualizer"
    /\ cpc = "finally"
    /\ \E ok \in BOOLEAN :
          /\ sent' = Append(sent, Sent("STOP", ok))
          /\ cpc' = IF ok THEN "close" ELSE "raised"
    /\ UNCHANGED << tool, sock_open, captured, buffer, piece_count >>
    /\ UNCHANGED notCaptureVars

\* line 77: udp_sock.close()
V_Close ==
    /\ tool = "visualizer"
    /\ cpc = "close"
    /\ sock_open' = FALSE
    /\ cpc' = "done"
    /\ UNCHANGED << tool, sent, captured, buffer, piece_count >>
    /\ UNCHANGED notCaptureVars

capture_and_visualize ==
    \/ V_Start \/ V_Timeout \/ V_Receive \/ V_ShowEnds \/ V_Stop \/ V_Close

InitCaptureTool ==
    /\ tool \in Tools
    /\ InitCapture
    /\ InitApp
    /\ packet_len = 8
    /\ long_run = FALSE
    /\ InitPlayer
    /\ device = {}
    /\ rx = << >>
    /\ running = TRUE
    /\ pc = "recv"
    /\ packet_buffer = [ s \in {} |-> << >> ]
    /\ last_sequence = -1
    /\ stats = [ packets_received |-> 0, packets_written |-> 0, bytes_written |-> 0 ]
    /\ sink = << >>
    /\ evicted = {}
    /\ outcome = "none"

NextCapture == capture_sound_udp \/ capture_and_visualize

SpecCapture == InitCaptureTool /\ [][NextCapture]_vars

\* ------------------------------------------------------------------------
\* Properties of the recorder's single-chunk path
\* ------------------------------------------------------------------------
\* C11: a datagram of at least 8 bytes with chunk_count = 1 is written to the
\* sink in the iteration that receives it, the bytes written are the
\* datagram's bytes after the eighth, and packet_buffer gains no entry.
C11_SingleChunkPassThrough ==
    [][ \A d \in device :
          (Received(d) /\ Len(d) >= HEADER_SIZE /\ chunk_count(d) = 1) =>
              /\ Len(sink') = Len(sink) + 1
              /\ SubSeq(sink', 1, Len(sink)) = sink
              /\ sink'[Len(sink')].data = [ i \in 1..(Len(d) - 8) |-> d[i + 8] ]
              /\ DOMAIN packet_buffer' \subseteq DOMAIN packet_buffer ]_vars

\* a single-chunk datagram has just been written while a fragment of another
\* chunk was pending
C11_Witness ==
    /\ outcome = "single"
    /\ rx # << >>
    /\ rx[Len(rx)] = MkDatagram(32, 0, 1, PayloadB)
    /\ sink[Len(sink)].data = PayloadB
    /\ 1 \in DOMAIN packet_buffer

\* ------------------------------------------------------------------------
\* Properties of the continuous receiver
\* ------------------------------------------------------------------------
\* the identifiers of a sequence of datagrams
Ids(q) == [ i \in 1..Len(q) |-> q[i].id ]

\* how many items play_audio has taken from the queue: those written, and
\* the one taken and not written (yet, or because the write failed)
Popped ==
    Len(out) + (IF audio_data # NoData /\ (out = << >> \/ out[Len(out)] # audio_data)
                THEN 1 ELSE 0)

\* nothing has been written to the stream
NothingWritten == out = << >> /\ last_frame = NoData

\* C12: while running is true no datagram ends the receiving thread: after
\* handling it the thread is still in its loop.
C12_ReceiverSurvivesDatagram ==
    cr_running => rpc # "dead"

\* C13: while the consumer has taken nothing, after n datagrams have been
\* enqueued the queue holds the min(n, capacity) most recent of them in
\* arrival order: with n = C + k the k oldest are gone.
C13_DropOldestKeepsNewest ==
    (Popped = 0 /\ rpc \in {"loop", "recv"}) =>
        LET first == IF accepted > maxsize THEN accepted - maxsize + 1 ELSE 1
        IN  Ids(audio_queue) = [ i \in 1..(accepted - first + 1) |-> first + i - 1 ]

\* the queue overflowed by one with no consumer: 2..C+1 are queued
C13_Witness ==
    /\ Popped = 0
    /\ rpc = "loop"
    /\ accepted = maxsize + 1
    /\ Len(audio_queue) = maxsize
    /\ audio_queue[1].id = 2
    /\ audio_queue[maxsize].id = maxsize + 1

\* C14: the queue never holds more items than its capacity.
C14_QueueWithinCapacity ==
    Len(audio_queue) >= 0 /\ Len(audio_queue) <= maxsize

\* the queue is full again after the consumer has taken items
C14_Witness ==
    /\ Len(audio_queue) = maxsize
    /\ Popped > 0
    /\ rpc = "loop"

\* the datagrams that have been put into the queue
Enqueued ==
    { k \in 1..accepted :
        ~(k = accepted /\ rpc \in {"put", "get_nowait", "put_nowait", "dead"}) }

\* C15: the datagrams written to the stream are an order-preserving
\* subsequence of the datagrams enqueued: each was enqueued, none is written
\* twice and none is written before one that arrived earlier.
C15_PlaybackPreservesArrivalOrder ==
    /\ \A i \in 1..Len(out) : out[i].id \in Enqueued \cup { recv_data.id }
    /\ \A i \in 1..Len(out) : out[i].id >= 1 /\ out[i].id <= accepted
    /\ \A i \in 1..(Len(out) - 1) : out[i].id < out[i + 1].id

\* two datagrams have been written with an evicted one between them
C15_Witness ==
    /\ Len(out) >= 2
    /\ \E i \in 1..(Len(out) - 1) : out[i + 1].id > out[i].id + 1

\* C16: the receiver's drop-oldest step removes an item only from a full
\* queue.
C16_EvictsOnlyWhenFull ==
    [][ (rpc = "get_nowait" /\ rpc' = "put_nowait") =>
            Len(audio_queue) = maxsize ]_vars

\* C17: before the buffer wait has seen the occupancy at buffer_target the
\* playback thread writes nothing, audio or silence; while running the wait
\* ends only at that occupancy.
C17_NoOutputBeforePreroll ==
    /\ [](ppc \in {"wait_start", "prebuffer"} => NothingWritten)
    /\ [][ (ppc = "prebuffer" /\ ppc' # "prebuffer" /\ cr_running) =>
               Len(audio_queue) >= buffer_target ]_vars
    /\ [][ (NothingWritten /\ ~NothingWritten') =>
               (ppc \in {"get", "write"} /\ accepted >= buffer_target) ]_vars

\* the first datagram has been written after the pre-roll
C17_Witness ==
    /\ cr_running
    /\ Len(out) = 1
    /\ out[1].id = 1
    /\ accepted >= buffer_target

\* a get of play_audio times out in this step, and the stream is in order
GetTimesOut ==
    ppc = "get" /\ silence_runs' = silence_runs + 1 /\ ppc' # "failed"

\* one block of silence is written in this step
SilenceWritten ==
    /\ last_frame' = [ id |-> 0, len |-> 2 * buffer_size, src |-> "local" ]
    /\ silence_written' = silence_written + 1
    /\ out' = out

C19_RebufferWithholdsOutput ==
    /\ []((silence_runs > 50 /\ cr_running) => ppc \in {"rebuffer", "resume"})
    /\ [][ ppc = "rebuffer" =>
             /\ UNCHANGED << out, last_frame, silence_written, audio_data >>
             /\ (ppc' # "rebuffer" /\ cr_running) =>
                   (Len(audio_queue) >= buffer_target /\ ppc' = "resume") ]_vars
    /\ [][ (ppc = "resume" /\ ppc' # "resume" /\ cr_running) =>
             (silence_runs' = 0 /\ ppc' = "loop"
                /\ UNCHANGED << out, last_frame, audio_queue >>) ]_vars

\* the re-buffer wait has just ended on a refilled queue
C19_Witness ==
    /\ ppc = "resume"
    /\ cr_running
    /\ silence_runs > 50
    /\ Len(audio_queue) >= buffer_target
    /\ out # << >>

\* C20: when the playback thread is re-buffering after a starvation and the
\* program is running, playback can resume from newly arriving datagrams:
\* the receiving thread, the only one that fills the queue, has not ended.
C20_RecoveryStaysPossible ==
    (ppc = "rebuffer" /\ cr_running) => rpc # "dead"

\* C21: once running is false no step puts a datagram into the audio queue.
C21_NoEnqueueAfterStop ==
    [][ (~cr_running) => Len(audio_queue') <= Len(audio_queue) ]_vars

\* C22: once running is false the playback thread takes no further datagram
\* from the queue.
C22_NoPopAfterStop ==
    [][ (~cr_running) =>
            (~(ppc = "get" /\ ppc' = "write") /\ audio_data' = audio_data) ]_vars

\* each thread has left its loop: by the flag, or by an error
ReceiverEnded == rpc \in {"done", "dead", "failed"}

PlayerEnded == ppc \in {"done", "failed"}

PutWaits == rpc = "put" /\ QueueFull(audio_queue)

\* C24: the receiving thread is never waiting for the playback thread or for
\* time to pass in order to get room in the queue.
C24_ReceiverNeverWaits ==
    ~PutWaits

\* C25: when the socket receive or the stream write has failed with an error
\* that is not a timeout, running is false (so that the other thread stops
\* as well).
C25_FailureStopsBoth ==
    (rpc = "failed" \/ ppc = "failed") => ~cr_running

\* C26: every datagram in the queue, taken from it or written to the stream
\* came from the configured address; a datagram from another address sends
\* the receiving thread back to the top of its loop without an error and
\* leaves the queue, has_started, the counters and the stream as they were.
C26_ForeignDatagramDropped ==
    /\ [](\A i \in 1..Len(audio_queue) : audio_queue[i].src = stm32_ip)
    /\ [](\A i \in 1..Len(out) : out[i].src = stm32_ip)
    /\ [](audio_data # NoData => audio_data.src = stm32_ip)
    /\ [][ (rpc = "recv" /\ rpc' \notin {"recv", "failed"}
              /\ recv_data'.src \in Sources \ {stm32_ip}) =>
             /\ rpc' = "loop"
             /\ UNCHANGED << audio_queue, has_started, accepted, packet_count,
                             out, last_frame, audio_data >> ]_vars

\* a datagram of another host has just been dropped while playback is under
\* way
C26_Witness ==
    /\ rpc = "loop"
    /\ recv_data.src = OtherIp
    /\ has_started
    /\ audio_queue # << >>
    /\ out # << >>

\* C27: no step lowers a packet counter: stats of the recorder, packet_count
\* of the continuous receiver.
C27_CountersNeverDecrease ==
    [][ /\ packet_count' >= packet_count
        /\ stats'.packets_received >= stats.packets_received
        /\ stats'.packets_written >= stats.packets_written
        /\ stats'.bytes_written >= stats.bytes_written ]_vars

\* a STOP send has been attempted
StopAttempted == \E i \in 1..Len(sent) : sent[i].msg = "STOP"

\* C28: in both capture tools START has been sent before anything is
\* received, and when the capture has ended, on whatever way, a STOP send
\* has been attempted and the socket is closed.
C28_StopAndCloseOnEveryExit ==
    /\ captured > 0 => (sent # << >> /\ sent[1] = Sent("START", TRUE))
    /\ cpc \in {"done", "raised"} => (StopAttempted /\ ~sock_open)

\* C29: the drop-oldest path after queue.Full never raises and ends with the
\* new datagram at the tail of the queue.
C29_DropOldestNeverRaises ==
    [][ (rpc \in {"get_nowait", "put_nowait"} /\ rpc' # rpc) =>
            /\ rpc' # "dead"
            /\ rpc' = "loop" => audio_queue'[Len(audio_queue')] = recv_data ]_vars

\* C30: silence_runs is set to 0 by every get that returns an item and by
\* every re-buffer wait completed while running, goes up by exactly one on
\* every get that times out, and changes in no other way; the re-buffer wait
\* is entered only from a timeout that takes silence_runs above 50; and never
\* more than 4 blocks of silence are written between two datagrams.
C30_SilenceRunsCountsTimeouts ==
    /\ [][ (ppc = "get" /\ ppc' = "write") => silence_runs' = 0 ]_vars
    /\ [][ (ppc = "resume" /\ ppc' # "resume" /\ cr_running) =>
               silence_runs' = 0 ]_vars
    /\ [][ (ppc = "get" /\ ppc' \notin {"get", "write"}) =>
               silence_runs' = silence_runs + 1 ]_vars
    /\ [][ silence_runs' # silence_runs =>
               \/ silence_runs' = 0
               \/ ppc = "get" /\ silence_runs' = silence_runs + 1 ]_vars
    /\ [][ (ppc # "rebuffer" /\ ppc' = "rebuffer") =>
               (ppc = "get" /\ silence_runs = 50 /\ silence_runs' = 51) ]_vars
    /\ [](silence_written <= 4)

\* the playback thread has entered the re-buffer wait on the 51st timeout in
\* a row, after four blocks of silence
C30_Witness ==
    /\ ppc = "rebuffer"
    /\ silence_runs = 51
    /\ silence_written = 4
    /\ last_frame = Silence
    /\ out # << >>

\* ------------------------------------------------------------------------
\* Properties of the recorder's counters
\* ------------------------------------------------------------------------
RECURSIVE TotalLength(_)
\* the total length of the payloads of a sequence of writes
TotalLength(writes) ==
    IF writes = << >> THEN 0
    ELSE Len(writes[1].data) + TotalLength(Tail(writes))

JitterArgs == { -100, 0, 200, 700, 1000 }
RateArgs == { 8000, 16009, 32000 }
BufferArgs == { 512, 2048 }

\* int() of a quotient: the digits after the point are dropped
TruncQuot(num, den) ==
    IF num >= 0 THEN num \div den ELSE -((-num) \div den)

\* int((jitter_buffer_ms / 1000) * (sample_rate / buffer_size) * 2): the
\* product is computed in binary floating point, so where the exact product
\* is a whole number n > 0 the float may lie just below n and int() then
\* gives n - 1
Truncations(ms, rate, size) ==
    LET num == ms * rate * 2
        den == 1000 * size
    IN  { TruncQuot(num, den) } \cup
        ( IF num > 0 /\ num % den = 0 THEN { TruncQuot(num, den) - 1 } ELSE {} )

\* the lower limit of line 24 left out
maxOfLast(a, b) == b

\* max(a, b)
max(a, b) == IF b > a THEN b ELSE a

\* line 24
Cfg_Jitter ==
    /\ cfg_pc = "args"
    /\ \E n \in Truncations(arg_jitter_buffer_ms, arg_sample_rate, arg_buffer_size) :
          cfg_jitter_buffer_packets' = max(10, n)
    /\ cfg_pc' = "socket"
    /\ UNCHANGED << arg_jitter_buffer_ms, arg_sample_rate, arg_buffer_size,
                    cfg_maxsize, cfg_buffer_target, cfg_qsize, cfg_dropped >>
    /\ UNCHANGED << recorderVars, playerVars, captureVars, listenerVars, storageVars,
                    micVars >>

\* line 35
Cfg_Queue ==
    /\ cfg_pc = "socket"
    /\ cfg_maxsize' = cfg_jitter_buffer_packets * 2
    /\ cfg_pc' = "threads"
    /\ UNCHANGED << arg_jitter_buffer_ms, arg_sample_rate, arg_buffer_size,
                    cfg_jitter_buffer_packets, cfg_buffer_target, cfg_qsize,
                    cfg_dropped >>
    /\ UNCHANGED << recorderVars, playerVars, captureVars, listenerVars, storageVars,
                    micVars >>

\* line 112, and the first datagram that ends the wait of lines 118-119
Cfg_Target ==
    /\ cfg_pc = "threads"
    /\ cfg_buffer_target' = cfg_jitter_buffer_packets \div 2
    /\ cfg_pc' = "prebuffer"
    /\ UNCHANGED << arg_jitter_buffer_ms, arg_sample_rate, arg_buffer_size,
                    cfg_jitter_buffer_packets, cfg_maxsize, cfg_qsize,
                    cfg_dropped >>
    /\ UNCHANGED << recorderVars, playerVars, captureVars, listenerVars, storageVars,
                    micVars >>

\* line 91 while the playback thread is in the wait of lines 123-124: the
\* queue has room
Cfg_Put ==
    /\ cfg_pc = "prebuffer"
    /\ cfg_qsize < cfg_maxsize
    /\ cfg_qsize' = cfg_qsize + 1
    /\ UNCHANGED << arg_jitter_buffer_ms, arg_sample_rate, arg_buffer_size, cfg_pc,
                    cfg_jitter_buffer_packets, cfg_maxsize, cfg_buffer_target,
                    cfg_dropped >>
    /\ UNCHANGED << recorderVars, playerVars, captureVars, listenerVars, storageVars,
                    micVars >>

\* lines 91-95 while the playback thread is in the wait of lines 123-124:
\* the queue is full, the oldest item is dropped and the new one is put
Cfg_DropOldest ==
    /\ cfg_pc = "prebuffer"
    /\ cfg_qsize >= cfg_maxsize
    /\ cfg_qsize' = (cfg_qsize - 1) + 1
    /\ cfg_dropped' = TRUE
    /\ UNCHANGED << arg_jitter_buffer_ms, arg_sample_rate, arg_buffer_size, cfg_pc,
                    cfg_jitter_buffer_packets, cfg_maxsize, cfg_buffer_target >>
    /\ UNCHANGED << recorderVars, playerVars, captureVars, listenerVars, storageVars,
                    micVars >>

\* lines 123-125: the wait ends once qsize() has reached buffer_target
Cfg_Start ==
    /\ cfg_pc = "prebuffer"
    /\ ~ (cfg_qsize < cfg_buffer_target)
    /\ cfg_pc' = "playing"
    /\ UNCHANGED << arg_jitter_buffer_ms, arg_sample_rate, arg_buffer_size,
                    cfg_jitter_buffer_packets, cfg_maxsize, cfg_buffer_target,
                    cfg_qsize, cfg_dropped >>
    /\ UNCHANGED << recorderVars, playerVars, captureVars, listenerVars, storageVars,
                    micVars >>

\* receive_and_play called with some arguments
InitSizes ==
    /\ arg_jitter_buffer_ms \in JitterArgs
    /\ arg_sample_rate \in RateArgs
    /\ arg_buffer_size \in BufferArgs
    /\ InitConfig
    /\ device = {}
    /\ rx = << >>
    /\ running = TRUE
    /\ pc = "recv"
    /\ packet_buffer = [ s \in {} |-> << >> ]
    /\ last_sequence = -1
    /\ stats = [ packets_received |-> 0, packets_written |-> 0, bytes_written |-> 0 ]
    /\ sink = << >>
    /\ evicted = {}
    /\ outcome = "none"
    /\ packet_len = 8
    /\ long_run = FALSE
    /\ InitPlayer
    /\ tool = "print"
    /\ InitCapture
    /\ InitListener
    /\ DefaultStorage
    /\ InitMic

NextSizes ==
    \/ Cfg_Jitter
    \/ Cfg_Queue
    \/ Cfg_Target
    \/ Cfg_Put
    \/ Cfg_DropOldest
    \/ Cfg_Start

SpecSizes == InitSizes /\ [][NextSizes]_vars

\* C31: for every configuration jitter_buffer_packets is at least 10, the
\* queue's capacity is twice jitter_buffer_packets and buffer_target is half
\* of it rounded down, so that 1 <= buffer_target < capacity; the queue
\* reaches buffer_target before the drop-oldest path can run, and that path
\* never leaves the queue below buffer_target
C31_TargetWithinCapacity ==
    /\ cfg_pc # "args" => cfg_jitter_buffer_packets >= 10
    /\ cfg_pc \notin {"args", "socket"} =>
           cfg_maxsize = 2 * cfg_jitter_buffer_packets
    /\ cfg_pc \in {"prebuffer", "playing"} =>
           /\ cfg_buffer_target = cfg_jitter_buffer_packets \div 2
           /\ 1 <= cfg_buffer_target
           /\ cfg_buffer_target < cfg_maxsize
           /\ cfg_qsize <= cfg_maxsize
           /\ cfg_dropped => cfg_qsize > cfg_buffer_target
           /\ cfg_pc = "playing" => cfg_qsize >= cfg_buffer_target

\* with a jitter buffer larger than the minimum, playback has started with
\* exactly buffer_target packets queued and nothing dropped
C31_Witness ==
    /\ cfg_pc = "playing"
    /\ cfg_jitter_buffer_packets > 10
    /\ cfg_qsize = cfg_buffer_target
    /\ ~ cfg_dropped

\* ------------------------------------------------------------------------
\* UDPListener._process_data (app/utils/udp_listener.py, lines 52-122)
\* ------------------------------------------------------------------------
\* how many datagrams a run of the listener receives
MaxProcessed == 3

\* the datagrams: what the bytes are and how many there are.
\*   "binary"  bytes that are not valid UTF-8 (raw samples)
\*   "plain"   UTF-8 text that is not JSON
\*   "sensor"  a JSON object with the key Inside_temperature
\*   "object"  any other JSON object
\*   "number"  a JSON number
Datagrams ==
    [ bytes : {"binary", "plain"}, len : {20, 1000, 1001} ] \cup
    [ bytes : {"sensor", "object", "number"}, len : {20} ]

\* data.decode('utf-8') (line 64) returns; otherwise it raises
\* UnicodeDecodeError
Decodes(data) == data.bytes # "binary"

\* json.loads(decoded) (line 66) returns; otherwise it raises
\* json.JSONDecodeError
Loads(data) == data.bytes \in {"sensor", "object", "number"}

\* the test of line 70 returns; on a number the operator `in` raises
\* TypeError
MembershipTested(data) == data.bytes \in {"sensor", "object"}

\* the exception raised in lines 64-98 is a json.JSONDecodeError, the only
\* one that the handler of line 100 catches
InnerHandlerCatches(data) == Decodes(data) /\ ~ Loads(data)

\* the callbacks that _process_data calls for one datagram
Called(data) ==
    IF Decodes(data) /\ Loads(data) /\ MembershipTested(data)
    THEN \* lines 89-90 and 95-96
         IF json_callback THEN {"json"} ELSE {}
    ELSE IF InnerHandlerCatches(data)
    THEN \* lines 106-117
         IF data.len > 1000
         THEN IF audio_callback THEN {"audio"} ELSE {}
         ELSE IF vibration_callback THEN {"vibration"} ELSE {}
    ELSE \* lines 119-122: the exception is logged
         {}

\* lines 52-122
process_data ==
    /\ Len(processed) < MaxProcessed
    /\ \E data \in Datagrams :
          processed' = Append(processed, [ data |-> data, called |-> Called(data) ])
    /\ UNCHANGED << json_callback, audio_callback, vibration_callback >>
    /\ UNCHANGED << recorderVars, playerVars, captureVars, configVars, storageVars,
                    micVars >>

\* a listener constructed with any of the callbacks (lines 16-31)
InitListening ==
    /\ json_callback \in BOOLEAN
    /\ audio_callback \in BOOLEAN
    /\ vibration_callback \in BOOLEAN
    /\ processed = << >>
    /\ DefaultConfig
    /\ device = {}
    /\ rx = << >>
    /\ running = TRUE
    /\ pc = "recv"
    /\ packet_buffer = [ s \in {} |-> << >> ]
    /\ last_sequence = -1
    /\ stats = [ packets_received |-> 0, packets_written |-> 0, bytes_written |-> 0 ]
    /\ sink = << >>
    /\ evicted = {}
    /\ outcome = "none"
    /\ packet_len = 8
    /\ long_run = FALSE
    /\ InitPlayer
    /\ tool = "print"
    /\ InitCapture
    /\ DefaultStorage
    /\ InitMic

NextListening == process_data

SpecListening == InitListening /\ [][NextListening]_vars

\* C33: with all three callbacks registered every datagram is handed to
\* exactly one callback: the JSON callback when the bytes are valid JSON,
\* otherwise the audio callback when it is longer than 1000 bytes and the
\* vibration callback when it is not
C33_ExactlyOneCallback ==
    (json_callback /\ audio_callback /\ vibration_callback) =>
        \A i \in 1..Len(processed) :
            LET data == processed[i].data
            IN  processed[i].called =
                    IF data.bytes \in {"sensor", "object", "number"} THEN {"json"}
                    ELSE IF data.len > 1000 THEN {"audio"}
                    ELSE {"vibration"}

\* ------------------------------------------------------------------------
\* MemoryStorage (app/data/storage.py, lines 14-109)
\* ------------------------------------------------------------------------
\* how many times add_sensor_data, add_audio_data and add_vibration_data are
\* called in a run, and the largest limit asked of get_sensor_history
MaxSensorCalls == 3
MaxAudioAdds == 11
MaxVibrationAdds == 51
MaxLimit == 3

\* the values of max_samples that are tried
SamplesArgs == { 1, 2 }

\* the hosts that send vibration data
VibrationIps == { "192.168.1.10" }

\* f"device_{device_ip}" (lines 57, 77; udp_listener.py line 73)
DeviceId(ip) ==
    IF ip = "192.168.1.10" THEN "device_192.168.1.10" ELSE "device_192.168.1.11"

\* get_sensor_history called without a device_id
NoDevice == "None"

\* the records add_sensor_data is called with: one without a timestamp, one
\* that brings its own, one without a device_id
SensorRecords ==
    { [ device_id |-> DeviceId("192.168.1.10"), timestamp |-> NoKey ],
      [ device_id |-> DeviceId("192.168.1.11"), timestamp |-> "given" ],
      [ device_id |-> NoKey, timestamp |-> NoKey ] }

\* a deque that never discards
DequeAppendUnbounded(q, x, maxlen) == Append(q, x)

\* deque(maxlen=maxlen).append(x): once the deque is full the items at the
\* left end are discarded
DequeAppend(q, x, maxlen) ==
    LET all == Append(q, x)
    IN  IF Len(all) > maxlen
        THEN SubSeq(all, Len(all) - maxlen + 1, Len(all))
        ELSE all

\* the test of line 36 left out
HasDeviceIdAlways(data) == TRUE

\* "device_id" in data (line 36)
HasDeviceId(data) == data.device_id # NoKey

\* lines 33 and 44-45
AddTimestamp(data) ==
    IF data.timestamp = NoKey THEN [ data EXCEPT !.timestamp = "now" ] ELSE data

\* the dictionary with the entry of key set to value
SetItem(dict, key, value) == (key :> value) @@ dict

\* the record of lines 65-69 and 85-89 for the n-th block of a device
RawRecord(n, size) == [ timestamp |-> n, size |-> size, data |-> n ]

\* lines 29-50; the record carries the number of the call as its reading
add_sensor_data ==
    /\ sensor_calls < MaxSensorCalls
    /\ sensor_calls' = sensor_calls + 1
    /\ \E input \in SensorRecords :
        LET data == [ device_id |-> input.device_id,
                      timestamp |-> input.timestamp,
                      reading |-> sensor_calls + 1 ]
            stamped == AddTimestamp(data)
        IN  IF ~ HasDeviceId(data)
            THEN /\ sensor_arg' = [ called |-> TRUE, given |-> data, after |-> data ]
                 /\ UNCHANGED << sensor_data, connected_devices, latest_data,
                                 sensor_log >>
            ELSE /\ connected_devices' = connected_devices \cup { data.device_id }
                 /\ sensor_data' = DequeAppend(sensor_data, stamped, max_samples)
                 /\ latest_data' = SetItem(latest_data, data.device_id, stamped)
                 /\ sensor_log' = Append(sensor_log, stamped)
                 /\ sensor_arg' = [ called |-> TRUE, given |-> data, after |-> stamped ]
    /\ UNCHANGED << max_samples, store_audio_data, vibration_data, audio_added,
                    vibration_added, history >>
    /\ UNCHANGED << recorderVars, playerVars, captureVars, configVars, listenerVars,
                    micVars >>

\* the calls of add_audio_data so far
AudioAdds == audio_added["192.168.1.10"] + audio_added["192.168.1.11"]

\* lines 52-70
add_audio_data ==
    /\ AudioAdds < MaxAudioAdds
    /\ \E device_ip \in DeviceIps :
        LET device_id == DeviceId(device_ip)
            kept == IF device_id \in DOMAIN store_audio_data
                    THEN store_audio_data[device_id] ELSE << >>
            n == audio_added[device_ip] + 1
        IN  /\ connected_devices' = connected_devices \cup { device_id }
            /\ store_audio_data' =
                   SetItem(store_audio_data, device_id,
                           DequeAppend(kept, RawRecord(n, 1200), 10))
            /\ audio_added' = [ audio_added EXCEPT ![device_ip] = n ]
    /\ UNCHANGED << max_samples, sensor_data, vibration_data, latest_data,
                    sensor_calls, sensor_arg, sensor_log, vibration_added, history >>
    /\ UNCHANGED << recorderVars, playerVars, captureVars, configVars, listenerVars,
                    micVars >>

\* lines 72-90
add_vibration_data ==
    \E device_ip \in VibrationIps :
        LET device_id == DeviceId(device_ip)
            kept == IF device_id \in DOMAIN vibration_data
                    THEN vibration_data[device_id] ELSE << >>
            n == vibration_added[device_ip] + 1
        IN  /\ vibration_added[device_ip] < MaxVibrationAdds
            /\ connected_devices' = connected_devices \cup { device_id }
            /\ vibration_data' =
                   SetItem(vibration_data, device_id,
                           DequeAppend(kept, RawRecord(n, 64), 50))
            /\ vibration_added' = [ vibration_added EXCEPT ![device_ip] = n ]
            /\ UNCHANGED << max_samples, sensor_data, store_audio_data, latest_data,
                            sensor_calls, sensor_arg, sensor_log, audio_added,
                            history >>
            /\ UNCHANGED << recorderVars, playerVars, captureVars, configVars,
                            listenerVars, micVars >>

\* line 105, and line 109 when device_id is None
Filtered(records, device_id) ==
    IF device_id # NoDevice
    THEN SelectSeq(records, LAMBDA d : d.device_id = device_id)
    ELSE records

\* records[-limit:] for limit >= 0: the slice starts limit items before the
\* end, at the first item if there are fewer, and -0 is 0, the first item
NegSlice(records, limit) ==
    LET start == IF limit = 0 THEN 0 ELSE max(0, Len(records) - limit)
    IN  SubSeq(records, start + 1, Len(records))

\* lines 99-109
get_sensor_history ==
    /\ \E device_id \in { NoDevice } \cup { DeviceId(ip) : ip \in DeviceIps },
          limit \in 0..MaxLimit :
          history' = [ called |-> TRUE, device_id |-> device_id, limit |-> limit,
                       of |-> sensor_data,
                       records |-> NegSlice(Filtered(sensor_data, device_id), limit) ]
    /\ UNCHANGED << storeVars, sensor_calls, sensor_arg, sensor_log, audio_added,
                    vibration_added >>
    /\ UNCHANGED << recorderVars, playerVars, captureVars, configVars, listenerVars,
                    micVars >>

\* the other tools, not running
IdleTools ==
    /\ device = {}
    /\ rx = << >>
    /\ running = TRUE
    /\ pc = "recv"
    /\ packet_buffer = [ s \in {} |-> << >> ]
    /\ last_sequence = -1
    /\ stats = [ packets_received |-> 0, packets_written |-> 0, bytes_written |-> 0 ]
    /\ sink = << >>
    /\ evicted = {}
    /\ outcome = "none"
    /\ packet_len = 8
    /\ long_run = FALSE
    /\ InitPlayer
    /\ tool = "print"
    /\ InitCapture
    /\ DefaultConfig
    /\ InitListener

\* MemoryStorage(max_samples) (lines 18-27)
InitStore ==
    /\ max_samples \in SamplesArgs
    /\ InitStorage
    /\ IdleTools
    /\ InitMic

NextStore == add_sensor_data \/ add_audio_data \/ add_vibration_data

SpecStore == InitStore /\ [][NextStore]_vars

NextHistory == add_sensor_data \/ get_sensor_history

SpecHistory == InitStore /\ [][NextHistory]_vars

\* the last n items of a sequence, all of them if there are fewer
LastOf(seq, n) ==
    SubSeq(seq, Len(seq) - (IF n < Len(seq) THEN n ELSE Len(seq)) + 1, Len(seq))

\* the records of blocks first..last of one device
Blocks(first, last, size) ==
    [ i \in 1..(last - first + 1) |-> RawRecord(first + i - 1, size) ]

C35_NoDeviceIdNoEffect ==
    [][ (sensor_calls' # sensor_calls /\ sensor_arg'.given.device_id = NoKey) =>
            /\ UNCHANGED storeVars
            /\ sensor_arg'.after = sensor_arg'.given ]_vars

\* a record without device_id was the last one passed, to a store that
\* holds sensor, audio and vibration records
C35_Witness ==
    /\ sensor_arg.called
    /\ sensor_arg.given.device_id = NoKey
    /\ sensor_arg.after = sensor_arg.given
    /\ sensor_data # << >>
    /\ DOMAIN store_audio_data # {}
    /\ DOMAIN vibration_data # {}
    /\ DOMAIN latest_data # {}

\* C36: for every limit >= 0 get_sensor_history returns at most limit
\* records, and they are the records added last (of the device asked for,
\* if one is given) in the order in which they were added
C36_HistoryWithinLimit ==
    history.called =>
        /\ Len(history.records) <= history.limit
        /\ history.records =
               LastOf(Filtered(history.of, history.device_id), history.limit)

\* ------------------------------------------------------------------------
\* MicrophoneTool (Sound_data.py, lines 48-138) as the menu drives it
\* (lines 296-353): one recording, started and stopped from the menu
\* ------------------------------------------------------------------------
\* how many datagrams arrive at the tool's port in a run
MaxHeard == 6

\* lines 334-337 and 48-62
start_recording ==
    /\ is_recording = "no"
    /\ ~ stop_returned
    /\ mic_running' = TRUE
    /\ received_data' = 0
    /\ wf' = "open"
    /\ listen_thread' = "start"
    /\ is_recording' = "yes"
    /\ UNCHANGED << sock_timeout, recv_timeout, wav_frames, late_frames, data_saved,
                    stop_returned >>
    /\ UNCHANGED << recorderVars, playerVars, captureVars, configVars, listenerVars,
                    storageVars >>

\* lines 306-309, 349-353 and 69-79: stop_recording returns at once when
\* running is already False, otherwise clears it and sets the timeout
M_Stop ==
    /\ is_recording = "yes"
    /\ IF ~ mic_running
       THEN /\ is_recording' = "no"
            /\ stop_returned' = TRUE
            /\ UNCHANGED << mic_running, sock_timeout >>
       ELSE /\ mic_running' = FALSE
            /\ sock_timeout' = "1s"
            /\ is_recording' = "stopping"
            /\ UNCHANGED stop_returned
    /\ UNCHANGED << wf, received_data, listen_thread, recv_timeout, wav_frames,
                    late_frames, data_saved >>
    /\ UNCHANGED << recorderVars, playerVars, captureVars, configVars, listenerVars,
                    storageVars >>

\* lines 82-95: join(2) returns when the thread has ended, or after 2 s
\* while the thread is blocked in a recvfrom that started without a timeout;
\* then the file is closed and the data saved if there is any
M_Close ==
    /\ is_recording = "stopping"
    /\ \/ listen_thread = "ended"
       \/ listen_thread = "recv" /\ recv_timeout = "none"
    /\ wf' = "closed"
    /\ data_saved' = (received_data > 0)
    /\ is_recording' = "no"
    /\ stop_returned' = TRUE
    /\ UNCHANGED << mic_running, received_data, listen_thread, sock_timeout,
                    recv_timeout, wav_frames, late_frames >>
    /\ UNCHANGED << recorderVars, playerVars, captureVars, configVars, listenerVars,
                    storageVars >>

stop_recording == M_Stop \/ M_Close

\* line 100
L_Begin ==
    /\ listen_thread = "start"
    /\ sock_timeout' = "none"
    /\ listen_thread' = "loop"
    /\ UNCHANGED << is_recording, mic_running, wf, received_data, recv_timeout,
                    wav_frames, late_frames, data_saved, stop_returned >>
    /\ UNCHANGED << recorderVars, playerVars, captureVars, configVars, listenerVars,
                    storageVars >>

\* line 108
L_Test ==
    /\ listen_thread = "loop"
    /\ listen_thread' = IF mic_running THEN "call" ELSE "finally"
    /\ UNCHANGED << is_recording, mic_running, wf, received_data, sock_timeout,
                    recv_timeout, wav_frames, late_frames, data_saved,
                    stop_returned >>
    /\ UNCHANGED << recorderVars, playerVars, captureVars, configVars, listenerVars,
                    storageVars >>

\* line 110: recvfrom is called and waits with the timeout the socket has
\* at that moment
L_Call ==
    /\ listen_thread = "call"
    /\ recv_timeout' = sock_timeout
    /\ listen_thread' = "recv"
    /\ UNCHANGED << is_recording, mic_running, wf, received_data, sock_timeout,
                    wav_frames, late_frames, data_saved, stop_returned >>
    /\ UNCHANGED << recorderVars, playerVars, captureVars, configVars, listenerVars,
                    storageVars >>

\* lines 110-113: a datagram arrives and is added to received_data
L_Receive ==
    /\ listen_thread = "recv"
    /\ received_data < MaxHeard
    /\ received_data' = received_data + 1
    /\ listen_thread' = "write"
    /\ UNCHANGED << is_recording, mic_running, wf, sock_timeout, recv_timeout,
                    wav_frames, late_frames, data_saved, stop_returned >>
    /\ UNCHANGED << recorderVars, playerVars, captureVars, configVars, listenerVars,
                    storageVars >>

\* lines 110 and 127-128: the call times out
L_Timeout ==
    /\ listen_thread = "recv"
    /\ recv_timeout = "1s"
    /\ listen_thread' = "loop"
    /\ UNCHANGED << is_recording, mic_running, wf, received_data, sock_timeout,
                    recv_timeout, wav_frames, late_frames, data_saved,
                    stop_returned >>
    /\ UNCHANGED << recorderVars, playerVars, captureVars, configVars, listenerVars,
                    storageVars >>

\* lines 110 and 129-132: recvfrom raises another error and the loop is left
L_RecvError ==
    /\ listen_thread = "recv"
    /\ listen_thread' = "finally"
    /\ UNCHANGED << is_recording, mic_running, wf, received_data, sock_timeout,
                    recv_timeout, wav_frames, late_frames, data_saved,
                    stop_returned >>
    /\ UNCHANGED << recorderVars, playerVars, captureVars, configVars, listenerVars,
                    storageVars >>

\* lines 116 and 129-132: writeframes writes to an open file and raises on a
\* closed one
L_Write ==
    /\ listen_thread = "write"
    /\ IF wf = "open"
       THEN /\ wav_frames' = wav_frames + 1
            /\ listen_thread' = "loop"
       ELSE /\ listen_thread' = "finally"
            /\ UNCHANGED wav_frames
    /\ late_frames' = IF wf = "open" /\ stop_returned THEN late_frames + 1
                      ELSE late_frames
    /\ UNCHANGED << is_recording, mic_running, wf, received_data, sock_timeout,
                    recv_timeout, data_saved, stop_returned >>
    /\ UNCHANGED << recorderVars, playerVars, captureVars, configVars, listenerVars,
                    storageVars >>

\* lines 135-138
L_Finally ==
    /\ listen_thread = "finally"
    /\ mic_running' = FALSE
    /\ listen_thread' = "ended"
    /\ UNCHANGED << is_recording, wf, received_data, sock_timeout, recv_timeout,
                    wav_frames, late_frames, data_saved, stop_returned >>
    /\ UNCHANGED << recorderVars, playerVars, captureVars, configVars, listenerVars,
                    storageVars >>

\* lines 97-138
listen ==
    \/ L_Begin
    \/ L_Test
    \/ L_Call
    \/ L_Receive
    \/ L_Timeout
    \/ L_RecvError
    \/ L_Write
    \/ L_Finally

\* MicrophoneTool() (lines 13-46) with the menu showing
InitMicrophone ==
    /\ InitMic
    /\ IdleTools
    /\ DefaultStorage

NextMicrophone == start_recording \/ stop_recording \/ listen

SpecMicrophone == InitMicrophone /\ [][NextMicrophone]_vars

\* C37: every stop_recording that follows a start_recording leaves the WAV
\* file closed and, when any data was received, the data file saved,
\* whatever happened to the listening thread in between; and no frame is
\* written to the WAV file after stop_recording has closed it
C37_StopClosesAndSaves ==
    /\ [][ (~ stop_returned /\ stop_returned') =>
               /\ wf' = "closed"
               /\ received_data' > 0 => data_saved' ]_vars
    /\ [](late_frames = 0)

====
